---------------------------- MODULE Spec2Model ----------------------------
(***************************************************************************)
(* A model of rix::io (include/rix/io/file.hpp, reader.hpp, writer.hpp,   *)
(* util.hpp, buffer.hpp): the RAII File handle over a std::fstream, the   *)
(* free whole-file helpers built on it, path_exists and temp_path, and    *)
(* the POD calls of the owning byte Buffer.                                *)
(*                                                                         *)
(* The host is a POSIX file system: a file is a byte sequence, a          *)
(* descriptor has an offset, O_APPEND writes land at end-of-file, text    *)
(* and binary streams are stored alike.  std::fstream keeps written data  *)
(* in its buffer until it is synchronised (flush, seek, close) or until   *)
(* the buffer overflows; the host may report a fault on any transfer.     *)
(***************************************************************************)
EXTENDS Naturals, Sequences, FiniteSets, TLC

\* ----------------------------------------------------------------- bounds
NumHandles == 2
MaxLen == 2
BufCap == 1
MaxClock == 3
MaxCalls == 3
MaxBuf == 3
SizeMax == 7

Handles == 1 .. NumHandles
Fds == 1 .. (NumHandles + 1)
Paths == {"a"}
EmptyPath == ""
Byte == {"0", "x"}
ZeroByte == "0"

FileMode == {"read", "write", "append", "read_write"}
FileType == {"text", "binary"}
WriteMode == {"truncate", "append"}

RECURSIVE SeqsUpTo(_)
SeqsUpTo(n) ==
    IF n = 0 THEN {<<>>}
    ELSE LET shorter == SeqsUpTo(n - 1)
         IN  shorter \cup {Append(s, b) : s \in {t \in shorter : Len(t) = n - 1}, b \in Byte}

\* every std::string / std::vector<std::byte> value of the bounded model
Content == SeqsUpTo(MaxLen)

\* ------------------------------------------------------------------ state
VARIABLES
    files,      \* host file system: path -> [exists, data]
    fds,        \* host descriptor table: fd -> path it is open on, or EmptyPath
    handles,    \* the File objects of the program, by slot
    last,       \* the last call made and what its caller observed
    clock,      \* the reading std::chrono::steady_clock::now() gives
    issued,     \* the temp_path calls made so far and what each returned
    data_,      \* Buffer::data_ of the Buffer object of the program
    call        \* the last call made on the Buffer and what its caller observed

vars == <<files, fds, handles, last, clock, issued, data_, call>>

filevars == <<files, fds, handles, last>>

\* what the calls on File objects and files never touch
others == <<clock, issued, data_, call>>

NoFile == [exists |-> FALSE, data |-> <<>>]

\* std::fstream stream_{} : a stream that is not associated with a file
ClosedStream == [fd |-> 0, om |-> {}, pos |-> 0, buf |-> <<>>, bad |-> FALSE]

\* File() = default : the default member initialisers
DefaultFile ==
    [live |-> TRUE, path_ |-> EmptyPath, stream_ |-> ClosedStream,
     mode_ |-> "read", type_ |-> "text"]

\* a slot that holds no File object (never constructed, or destroyed)
NoObject == [DefaultFile EXCEPT !.live = FALSE]

\* ------------------------------------------------------- detail:: helpers
\* to_openmode with std::ios::trunc added to read_write
\* to_openmode that opens read_write with std::ios_base::app
to_openmode_rw_append(mode, type) ==
    (CASE mode = "read"       -> {"in"}
       [] mode = "write"      -> {"out", "trunc"}
       [] mode = "append"     -> {"out", "app"}
       [] mode = "read_write" -> {"in", "out", "app"})
    \cup (IF type = "binary" THEN {"binary"} ELSE {})

to_openmode_trunc_rw(mode, type) ==
    (CASE mode = "read"       -> {"in"}
       [] mode = "write"      -> {"out", "trunc"}
       [] mode = "append"     -> {"out", "app"}
       [] mode = "read_write" -> {"in", "out", "trunc"})
    \cup (IF type = "binary" THEN {"binary"} ELSE {})

to_openmode(mode, type) ==
    (CASE mode = "read"       -> {"in"}
       [] mode = "write"      -> {"out", "trunc"}
       [] mode = "append"     -> {"out", "app"}
       [] mode = "read_write" -> {"in", "out"})
    \cup (IF type = "binary" THEN {"binary"} ELSE {})

mode_can_read(m) == m = "read" \/ m = "read_write"

\* mode_can_write with FileMode::append left out
mode_can_write_no_append(m) == m = "write" \/ m = "read_write"

mode_can_write(m) == m = "write" \/ m = "append" \/ m = "read_write"

\* to_file_mode that ignores WriteMode::append
to_file_mode_always_write(mode) == "write"

to_file_mode(mode) == IF mode = "append" THEN "append" ELSE "write"

\* --------------------------------------------------------- observers
is_open(f) == f.stream_.fd # 0


\* the host state an operation works on
World == [files |-> files, fds |-> fds]

\* ------------------------------------------------ the host and std::fstream
HasFreeFd(w) == \E d \in Fds : w.fds[d] = EmptyPath

\* the host hands out the lowest free descriptor
FreeFd(w) == CHOOSE d \in Fds : w.fds[d] = EmptyPath
                                /\ \A e \in Fds : w.fds[e] = EmptyPath => d <= e

\* pwrite(2) of x at offset pos: a gap past end-of-file reads as zero bytes
Overwrite(data, pos, x) ==
    LET n == IF pos + Len(x) > Len(data) THEN pos + Len(x) ELSE Len(data)
    IN  [i \in 1 .. n |->
            IF i > pos /\ i <= pos + Len(x) THEN x[i - pos]
            ELSE IF i <= Len(data) THEN data[i]
            ELSE ZeroByte]

\* stream_.open(path_, openmode): "in" needs an existing file, "out" without
\* "in" creates it, "trunc" empties it; hostOk = FALSE is any host refusal
stream_open(w, path, om, hostOk) ==
    LET file == IF path \in Paths THEN w.files[path] ELSE NoFile
        can  == /\ hostOk
                /\ path \in Paths
                /\ HasFreeFd(w)
                /\ ("in" \in om => file.exists)
    IN  IF ~can
        THEN [s |-> ClosedStream, w |-> w]
        ELSE LET d == FreeFd(w)
                 nf == IF "trunc" \in om \/ ~file.exists
                       THEN [exists |-> TRUE, data |-> <<>>]
                       ELSE file
             IN  [s |-> [fd |-> d, om |-> om, pos |-> 0, buf |-> <<>>, bad |-> FALSE],
                  w |-> [files |-> [w.files EXCEPT ![path] = nf],
                         fds   |-> [w.fds EXCEPT ![d] = path]]]

\* basic_filebuf::sync / overflow: hand the pending output to the host.
\* On a host fault the data is not delivered and the call reports failure.
stream_sync(s, w, fault) ==
    IF s.buf = <<>>
    THEN [s |-> s, w |-> w, ok |-> TRUE, fault |-> FALSE]
    ELSE IF fault
    THEN [s |-> [s EXCEPT !.buf = <<>>], w |-> w, ok |-> FALSE, fault |-> TRUE]
    ELSE LET p    == w.fds[s.fd]
             data == w.files[p].data
             app  == "app" \in s.om
             new  == IF app THEN data \o s.buf ELSE Overwrite(data, s.pos, s.buf)
             npos == IF app THEN Len(new) ELSE s.pos + Len(s.buf)
         IN  [s |-> [s EXCEPT !.buf = <<>>, !.pos = npos],
              w |-> [w EXCEPT !.files[p].data = new],
              ok |-> TRUE, fault |-> FALSE]

\* stream_.close(): pending output is synchronised, and the descriptor is
\* released whether or not that succeeded
stream_close(s, w, fault) ==
    LET r == stream_sync(s, w, fault)
    IN  [s |-> ClosedStream,
         w |-> [r.w EXCEPT !.fds[s.fd] = EmptyPath],
         fault |-> r.fault]

\* what a call hands back: the object, the host, and what the caller sees
Res(f, w, outcome, data, fault) ==
    [f |-> f, w |-> w, outcome |-> outcome, data |-> data, fault |-> fault]

\* ------------------------------------------------------------- class File
require_open(f) == is_open(f)

require_readable(f) == mode_can_read(f.mode_)

require_writable(f) == mode_can_write(f.mode_)

\* open_internal without the is_open() test: a failed open goes unnoticed
open_internal_unchecked(w, path, mode, type, hostOk) ==
    LET r == stream_open(w, path, to_openmode(mode, type), hostOk)
        f == [live |-> TRUE, path_ |-> path, stream_ |-> r.s,
              mode_ |-> mode, type_ |-> type]
    IN  Res(f, r.w, "ok", <<>>, FALSE)

\* File(path, mode, type) : members initialised, then open_internal()
open_internal(w, path, mode, type, hostOk) ==
    LET r == stream_open(w, path, to_openmode(mode, type), hostOk)
        f == [live |-> TRUE, path_ |-> path, stream_ |-> r.s,
              mode_ |-> mode, type_ |-> type]
    IN  IF r.s.fd = 0
        THEN Res(NoObject, w, "open_failed", <<>>, ~hostOk)
        ELSE Res(f, r.w, "ok", <<>>, FALSE)

\* close() that releases the descriptor and drops the pending output
close_no_sync(f, w, fault) ==
    IF is_open(f)
    THEN Res([f EXCEPT !.stream_ = ClosedStream],
             [w EXCEPT !.fds[f.stream_.fd] = EmptyPath], "ok", <<>>, FALSE)
    ELSE Res(f, w, "ok", <<>>, FALSE)

\* close() that calls stream_.flush() in place of stream_.close()
close_flush_only(f, w, fault) ==
    IF is_open(f)
    THEN LET r == stream_sync(f.stream_, w, fault)
         IN  Res([f EXCEPT !.stream_ = r.s], r.w, "ok", <<>>, r.fault)
    ELSE Res(f, w, "ok", <<>>, FALSE)

close(f, w, fault) ==
    IF is_open(f)
    THEN LET r == stream_close(f.stream_, w, fault)
         IN  Res([f EXCEPT !.stream_ = r.s], r.w, "ok", <<>>, r.fault)
    ELSE Res(f, w, "ok", <<>>, FALSE)

\* read_all_text that clears and rewinds the stream before require_readable()
read_all_text_rewind_first(f, w, fault, impl, k) ==
    IF ~require_open(f) THEN Res(f, w, "not_open", <<>>, FALSE)
    ELSE IF ~require_readable(f)
    THEN LET sk == stream_sync([f.stream_ EXCEPT !.bad = FALSE], w, FALSE)
         IN  Res([f EXCEPT !.stream_ = [sk.s EXCEPT !.pos = 0]], sk.w,
                 "not_readable", <<>>, FALSE)
    ELSE LET sk   == stream_sync([f.stream_ EXCEPT !.bad = FALSE], w, FALSE)
             data == sk.w.files[sk.w.fds[sk.s.fd]].data
         IN  Res([f EXCEPT !.stream_ = [sk.s EXCEPT !.pos = Len(data)]], sk.w,
                 "ok", data, FALSE)

\* read_all_text that rewinds by reopening the stream for reading and
\* records the mode it reopened with
read_all_text_reopen(f, w, fault, impl, k) ==
    IF ~require_open(f) THEN Res(f, w, "not_open", <<>>, FALSE)
    ELSE IF ~require_readable(f) THEN Res(f, w, "not_readable", <<>>, FALSE)
    ELSE LET sk   == stream_sync([f.stream_ EXCEPT !.bad = FALSE], w, FALSE)
             data == sk.w.files[sk.w.fds[sk.s.fd]].data
         IN  Res([f EXCEPT !.stream_ = [sk.s EXCEPT !.pos = Len(data), !.om = {"in"}],
                           !.mode_ = "read"],
                 sk.w, "ok", data, FALSE)

\* fault: "none", "write" (the host refuses the pending output that the
\* rewind has to deliver) or "read" (the host fails the read after k bytes).
\* impl: what basic_filebuf::underflow does on a host read error: "throws"
\* (std::ios_base::failure leaves the call) or "eof" (it reports end-of-file).
read_all_text(f, w, fault, impl, k) ==
    IF ~require_open(f) THEN Res(f, w, "not_open", <<>>, FALSE)
    ELSE IF ~require_readable(f) THEN Res(f, w, "not_readable", <<>>, FALSE)
    ELSE LET s0   == [f.stream_ EXCEPT !.bad = FALSE]
             sk   == stream_sync(s0, w, fault = "write")
             data == sk.w.files[sk.w.fds[s0.fd]].data
             kk   == IF k < Len(data) THEN k ELSE Len(data)
         IN  IF ~sk.ok
             THEN Res([f EXCEPT !.stream_ = [sk.s EXCEPT !.bad = TRUE]], sk.w,
                      "read_failed", <<>>, TRUE)
             ELSE IF fault = "read"
             THEN IF impl = "throws"
                  THEN Res([f EXCEPT !.stream_ = [sk.s EXCEPT !.pos = kk]], sk.w,
                           "ios_failure", <<>>, TRUE)
                  ELSE Res([f EXCEPT !.stream_ = [sk.s EXCEPT !.pos = kk]], sk.w,
                           "ok", SubSeq(data, 1, kk), TRUE)
             ELSE Res([f EXCEPT !.stream_ = [sk.s EXCEPT !.pos = Len(data)]], sk.w,
                      "ok", data, FALSE)

\* read_all_bytes that measures and reads from the current position
read_all_bytes_no_rewind(f, w, fault, k) ==
    IF ~require_open(f) THEN Res(f, w, "not_open", <<>>, FALSE)
    ELSE IF ~require_readable(f) THEN Res(f, w, "not_readable", <<>>, FALSE)
    ELSE LET s0   == [f.stream_ EXCEPT !.bad = FALSE]
             sk   == stream_sync(s0, w, fault = "write")
             data == sk.w.files[sk.w.fds[s0.fd]].data
             from == IF sk.s.pos < Len(data) THEN sk.s.pos ELSE Len(data)
         IN  Res([f EXCEPT !.stream_ = [sk.s EXCEPT !.pos = Len(data)]], sk.w,
                 "ok", SubSeq(data, from + 1, Len(data)), FALSE)

read_all_bytes(f, w, fault, k) ==
    IF ~require_open(f) THEN Res(f, w, "not_open", <<>>, FALSE)
    ELSE IF ~require_readable(f) THEN Res(f, w, "not_readable", <<>>, FALSE)
    ELSE LET s0   == [f.stream_ EXCEPT !.bad = FALSE]
             sk   == stream_sync(s0, w, fault = "write")
             data == sk.w.files[sk.w.fds[s0.fd]].data
             kk   == IF k < Len(data) THEN k ELSE Len(data)
         IN  IF ~sk.ok
             THEN \* both seekg fail, both tellg give -1: size 0, nothing read
                  Res([f EXCEPT !.stream_ = [sk.s EXCEPT !.bad = TRUE]], sk.w,
                      "ok", <<>>, TRUE)
             ELSE IF fault = "read" /\ data # <<>>
             THEN Res([f EXCEPT !.stream_ = [sk.s EXCEPT !.pos = kk, !.bad = TRUE]], sk.w,
                      "read_failed", <<>>, TRUE)
             ELSE Res([f EXCEPT !.stream_ = [sk.s EXCEPT !.pos = Len(data)]], sk.w,
                      "ok", data, FALSE)

\* basic_filebuf::xsputn: the data joins the stream buffer; a buffer that
\* cannot hold it is handed to the host at once
stream_write(s, w, x, fault) ==
    LET s1 == [s EXCEPT !.buf = @ \o x]
    IN  IF Len(s1.buf) > BufCap
        THEN stream_sync(s1, w, fault)
        ELSE [s |-> s1, w |-> w, ok |-> TRUE, fault |-> FALSE]

\* write(std::string_view) that calls require_writable() before require_open()
write_mode_first(f, w, text, fault) ==
    IF ~require_writable(f) THEN Res(f, w, "not_writable", text, FALSE)
    ELSE IF ~require_open(f) THEN Res(f, w, "not_open", text, FALSE)
    ELSE IF f.stream_.bad THEN Res(f, w, "write_failed", text, FALSE)
    ELSE LET r == stream_write(f.stream_, w, text, fault)
         IN  IF r.ok
             THEN Res([f EXCEPT !.stream_ = r.s], r.w, "ok", text, FALSE)
             ELSE Res([f EXCEPT !.stream_ = [r.s EXCEPT !.bad = TRUE]], r.w,
                      "write_failed", text, TRUE)

\* write(std::string_view) that passes text.size() - 1 to stream_.write
write_short(f, w, text, fault) ==
    IF ~require_open(f) THEN Res(f, w, "not_open", text, FALSE)
    ELSE IF ~require_writable(f) THEN Res(f, w, "not_writable", text, FALSE)
    ELSE IF f.stream_.bad THEN Res(f, w, "write_failed", text, FALSE)
    ELSE LET n == IF text = <<>> THEN 0 ELSE Len(text) - 1
             r == stream_write(f.stream_, w, SubSeq(text, 1, n), fault)
         IN  IF r.ok
             THEN Res([f EXCEPT !.stream_ = r.s], r.w, "ok", text, FALSE)
             ELSE Res([f EXCEPT !.stream_ = [r.s EXCEPT !.bad = TRUE]], r.w,
                      "write_failed", text, TRUE)

write(f, w, text, fault) ==
    IF ~require_open(f) THEN Res(f, w, "not_open", text, FALSE)
    ELSE IF ~require_writable(f) THEN Res(f, w, "not_writable", text, FALSE)
    ELSE IF f.stream_.bad THEN Res(f, w, "write_failed", text, FALSE)
    ELSE LET r == stream_write(f.stream_, w, text, fault)
         IN  IF r.ok
             THEN Res([f EXCEPT !.stream_ = r.s], r.w, "ok", text, FALSE)
             ELSE Res([f EXCEPT !.stream_ = [r.s EXCEPT !.bad = TRUE]], r.w,
                      "write_failed", text, TRUE)

\* write(std::span<const std::byte>): an empty span skips stream_.write
write_bytes(f, w, bytes, fault) ==
    IF ~require_open(f) THEN Res(f, w, "not_open", bytes, FALSE)
    ELSE IF ~require_writable(f) THEN Res(f, w, "not_writable", bytes, FALSE)
    ELSE IF bytes = <<>>
    THEN Res(f, w, IF f.stream_.bad THEN "write_failed" ELSE "ok", bytes, FALSE)
    ELSE IF f.stream_.bad THEN Res(f, w, "write_failed", bytes, FALSE)
    ELSE LET r == stream_write(f.stream_, w, bytes, fault)
         IN  IF r.ok
             THEN Res([f EXCEPT !.stream_ = r.s], r.w, "ok", bytes, FALSE)
             ELSE Res([f EXCEPT !.stream_ = [r.s EXCEPT !.bad = TRUE]], r.w,
                      "write_failed", bytes, TRUE)

\* flush() without require_open()
flush_unchecked(f, w, fault) ==
    IF f.stream_.bad THEN Res(f, w, "flush_failed", <<>>, FALSE)
    ELSE LET r == stream_sync(f.stream_, w, fault)
         IN  IF r.ok
             THEN Res([f EXCEPT !.stream_ = r.s], r.w, "ok", <<>>, FALSE)
             ELSE Res([f EXCEPT !.stream_ = [r.s EXCEPT !.bad = TRUE]], r.w,
                      "flush_failed", <<>>, TRUE)

flush(f, w, fault) ==
    IF ~require_open(f) THEN Res(f, w, "not_open", <<>>, FALSE)
    ELSE IF f.stream_.bad THEN Res(f, w, "flush_failed", <<>>, FALSE)
    ELSE LET r == stream_sync(f.stream_, w, fault)
         IN  IF r.ok
             THEN Res([f EXCEPT !.stream_ = r.s], r.w, "ok", <<>>, FALSE)
             ELSE Res([f EXCEPT !.stream_ = [r.s EXCEPT !.bad = TRUE]], r.w,
                      "flush_failed", <<>>, TRUE)

\* ~File() noexcept { close(); } : afterwards the slot holds no object
destroy(f, w, fault) ==
    LET r == close(f, w, fault)
    IN  Res(NoObject, r.w, "ok", <<>>, r.fault)

\* a move constructor that leaves type_ at its default member initialiser
move_construct_default_type(other) ==
    [self  |-> [live |-> TRUE, path_ |-> other.path_, stream_ |-> other.stream_,
                mode_ |-> other.mode_, type_ |-> "text"],
     other |-> [other EXCEPT !.path_ = EmptyPath, !.stream_ = ClosedStream]]

\* File(File &&other): the members of the new object, and what is left in other
move_construct(other) ==
    [self  |-> [live |-> TRUE, path_ |-> other.path_, stream_ |-> other.stream_,
                mode_ |-> other.mode_, type_ |-> other.type_],
     other |-> [other EXCEPT !.path_ = EmptyPath, !.stream_ = ClosedStream]]

\* a move assignment that copies the stream and leaves it with other too
move_assign_shared(self, other, w, fault) ==
    LET c == close(self, w, fault)
    IN  [self  |-> [c.f EXCEPT !.path_ = other.path_, !.stream_ = other.stream_,
                               !.mode_ = other.mode_, !.type_ = other.type_],
         other |-> [other EXCEPT !.path_ = EmptyPath],
         w     |-> c.w,
         fault |-> c.fault]

\* a move assignment that closes both streams and hands none over
move_assign_no_stream(self, other, w, fault) ==
    LET c == close(self, w, fault)
        o == close(other, c.w, FALSE)
    IN  [self  |-> [c.f EXCEPT !.path_ = other.path_,
                               !.mode_ = other.mode_, !.type_ = other.type_],
         other |-> [o.f EXCEPT !.path_ = EmptyPath],
         w     |-> o.w,
         fault |-> c.fault]

\* File &operator=(File &&other), for this != &other
move_assign(self, other, w, fault) ==
    LET c == close(self, w, fault)
    IN  [self  |-> [c.f EXCEPT !.path_ = other.path_, !.stream_ = other.stream_,
                               !.mode_ = other.mode_, !.type_ = other.type_],
         other |-> [other EXCEPT !.path_ = EmptyPath, !.stream_ = ClosedStream],
         w     |-> c.w,
         fault |-> c.fault]


\* ------------------------------------------- reader.hpp / writer.hpp helpers
\* what a free function hands back: the host, what the caller sees, and
\* whether the host reported a fault during the call
Ret(w, outcome, data, fault) ==
    [w |-> w, outcome |-> outcome, data |-> data, fault |-> fault]

\* write_file whose File is not destroyed when write or flush throws
write_file_leaky(w, path, x, mode, type, bytes, hostOk, wfault, ffault, cfault) ==
    LET o == open_internal(w, path, to_file_mode(mode), type, hostOk)
    IN  IF o.outcome # "ok" THEN Ret(w, o.outcome, x, o.fault)
        ELSE LET wr == IF bytes THEN write_bytes(o.f, o.w, x, wfault)
                       ELSE write(o.f, o.w, x, wfault)
             IN  IF wr.outcome # "ok"
                 THEN Ret(wr.w, wr.outcome, x, wr.fault)
                 ELSE LET fl == flush(wr.f, wr.w, ffault)
                          d  == destroy(fl.f, fl.w, cfault)
                      IN  IF fl.outcome # "ok"
                          THEN Ret(fl.w, fl.outcome, x, fl.fault)
                          ELSE Ret(d.w, fl.outcome, x, d.fault)

\* { File f{path, mode, type}; f.write(x); f.flush(); } : f is destroyed on
\* every way out of the block, also when write or flush throws
write_file(w, path, x, mode, type, bytes, hostOk, wfault, ffault, cfault) ==
    LET o == open_internal(w, path, to_file_mode(mode), type, hostOk)
    IN  IF o.outcome # "ok" THEN Ret(w, o.outcome, x, o.fault)
        ELSE LET wr == IF bytes THEN write_bytes(o.f, o.w, x, wfault)
                       ELSE write(o.f, o.w, x, wfault)
             IN  IF wr.outcome # "ok"
                 THEN LET d == destroy(wr.f, wr.w, cfault)
                      IN  Ret(d.w, wr.outcome, x, wr.fault \/ d.fault)
                 ELSE LET fl == flush(wr.f, wr.w, ffault)
                          d  == destroy(fl.f, fl.w, cfault)
                      IN  Ret(d.w, fl.outcome, x, fl.fault \/ d.fault)

write_file_text(w, path, text, mode, hostOk, wfault, ffault, cfault) ==
    write_file(w, path, text, mode, "text", FALSE, hostOk, wfault, ffault, cfault)

write_file_binary(w, path, bytes, mode, hostOk, wfault, ffault, cfault) ==
    write_file(w, path, bytes, mode, "binary", TRUE, hostOk, wfault, ffault, cfault)

\* { File f{path, FileMode::read, FileType::text}; return f.read_all_text(); }
read_file_text(w, path, hostOk, fault, impl, k) ==
    LET o == open_internal(w, path, "read", "text", hostOk)
    IN  IF o.outcome # "ok" THEN Ret(w, o.outcome, <<>>, o.fault)
        ELSE LET r == read_all_text(o.f, o.w, fault, impl, k)
                 d == destroy(r.f, r.w, FALSE)
             IN  Ret(d.w, r.outcome, r.data, r.fault)

\* { File f{path, FileMode::read, FileType::binary}; return f.read_all_bytes(); }
read_file_binary(w, path, hostOk, fault, k) ==
    LET o == open_internal(w, path, "read", "binary", hostOk)
    IN  IF o.outcome # "ok" THEN Ret(w, o.outcome, <<>>, o.fault)
        ELSE LET r == read_all_bytes(o.f, o.w, fault, k)
                 d == destroy(r.f, r.w, FALSE)
             IN  Ret(d.w, r.outcome, r.data, r.fault)

\* deprecated aliases
write_text(w, path, text, mode, hostOk, wfault, ffault, cfault) ==
    write_file_text(w, path, text, mode, hostOk, wfault, ffault, cfault)

write_binary(w, path, bytes, mode, hostOk, wfault, ffault, cfault) ==
    write_file_binary(w, path, bytes, mode, hostOk, wfault, ffault, cfault)

read_text(w, path, hostOk, fault, impl, k) ==
    read_file_text(w, path, hostOk, fault, impl, k)

read_binary(w, path, hostOk, fault, k) ==
    read_file_binary(w, path, hostOk, fault, k)

\* try_read_file_text whose catch clause handles the read error only
try_read_file_text_read_errors_only(w, path, hostOk, fault, impl, k) ==
    LET r == read_file_text(w, path, hostOk, fault, impl, k)
    IN  IF r.outcome = "ok" THEN Ret(r.w, "value", r.data, r.fault)
        ELSE IF r.outcome = "read_failed" THEN Ret(r.w, "absent", <<>>, r.fault)
        ELSE Ret(r.w, r.outcome, <<>>, r.fault)

\* try { return read_file_text(path); } catch (...) { return std::nullopt; }
try_read_file_text(w, path, hostOk, fault, impl, k) ==
    LET r == read_file_text(w, path, hostOk, fault, impl, k)
    IN  IF r.outcome = "ok" THEN Ret(r.w, "value", r.data, r.fault)
        ELSE Ret(r.w, "absent", <<>>, r.fault)

try_read_file_binary(w, path, hostOk, fault, k) ==
    LET r == read_file_binary(w, path, hostOk, fault, k)
    IN  IF r.outcome = "ok" THEN Ret(r.w, "value", r.data, r.fault)
        ELSE Ret(r.w, "absent", <<>>, r.fault)

\* path_exists that answers whether the status query raised no error
path_exists_no_error(w, p, hostOk) == hostOk /\ p \in Paths

\* std::error_code ec; return std::filesystem::exists(p, ec);
\* hostOk = FALSE: the host cannot give the status (ec is set, the answer is false)
path_exists(w, p, hostOk) == hostOk /\ p \in Paths /\ w.files[p].exists

\* ------------------------------------------------------- util.hpp: temp_path
Prefixes == {"rix", "rix_io"}
TempDir == "/tmp"
Digit == <<"0", "1", "2", "3", "4", "5", "6", "7", "8", "9">>

\* std::to_string of a non-negative integer
RECURSIVE to_string(_)
to_string(n) ==
    IF n < 10 THEN Digit[n + 1]
    ELSE to_string(n \div 10) \o Digit[(n % 10) + 1]

\* std::to_string of the first output of std::mt19937_64 seeded with 0, 1, ...
\* (the values are 64 bits wide and kept as decimal text)
mt19937_64 ==
    << "2947667278772165694",  "2469588189546311528",  "16668552215174154828",
       "10307413207671831467", "14490808261858112199", "12415856028556828342",
       "14315882575126838720", "13915952638675311015" >>

rand_val(now) == mt19937_64[now + 1]

\* temp_path that leaves the reading out of the name and seeds the
\* generator with half the reading
temp_path_coarse(prefix, now, tmpOk) ==
    IF ~tmpOk
    THEN [outcome |-> "filesystem_error", path |-> ""]
    ELSE [outcome |-> "ok",
          path |-> TempDir \o "/" \o prefix \o "_" \o rand_val(now \div 2) \o ".tmp"]

\* now: the steady_clock reading; tmpOk = FALSE: temp_directory_path() throws
temp_path(prefix, now, tmpOk) ==
    IF ~tmpOk
    THEN [outcome |-> "filesystem_error", path |-> ""]
    ELSE [outcome |-> "ok",
          path |-> TempDir \o "/" \o prefix \o "_" \o to_string(now) \o "_"
                   \o rand_val(now) \o ".tmp"]

\* ------------------------------------------------------ buffer.hpp: Buffer
\* std::size_t arithmetic
SizeMod == SizeMax + 1

SizeAdd(a, b) == (a + b) % SizeMod

SizeSub(a, b) == (a + SizeMod - b) % SizeMod

\* sizeof(T) of the trivially copyable types used, and their object representations
PodWidths == {1, 2}
PodValues == {v \in SeqsUpTo(2) : Len(v) \in PodWidths}
BufContent == SeqsUpTo(MaxBuf)

size(data) == Len(data)

\* the byte at 0-based index i; the storage past size() is not the buffer's
ByteAt(data, i) == IF i < Len(data) THEN data[i + 1] ELSE ZeroByte

\* touched: the 0-based indices of data_ the call read or wrote
PodRes(data, outcome, value, touched) ==
    [data |-> data, outcome |-> outcome, value |-> value, touched |-> touched]

\* offset > size() || (size() - offset) < sizeof(T)
out_of_range(data, offset, w) ==
    offset > size(data) \/ SizeSub(size(data), offset) < w

\* write_pod whose range test computes offset + sizeof(T)
write_pod_by_sum(data, offset, value) ==
    IF SizeAdd(offset, Len(value)) > size(data)
    THEN PodRes(data, "invalid_argument", value, {})
    ELSE PodRes([i \in 1 .. Len(data) |->
                    IF i > offset /\ i <= offset + Len(value)
                    THEN value[i - offset] ELSE data[i]],
                "ok", value, offset .. (offset + Len(value) - 1))

\* write_pod that makes room when the value does not fit
write_pod_growing(data, offset, value) ==
    LET n == IF offset + Len(value) > Len(data) THEN offset + Len(value) ELSE Len(data)
    IN  PodRes([i \in 1 .. n |->
                   IF i > offset /\ i <= offset + Len(value) THEN value[i - offset]
                   ELSE IF i <= Len(data) THEN data[i] ELSE ZeroByte],
               "ok", value, offset .. (offset + Len(value) - 1))

\* read_pod whose range test computes offset + sizeof(T)
read_pod_by_sum(data, offset, w) ==
    IF SizeAdd(offset, w) > size(data)
    THEN PodRes(data, "invalid_argument", <<>>, {})
    ELSE PodRes(data, "ok", [i \in 1 .. w |-> ByteAt(data, offset + i - 1)],
                offset .. (offset + w - 1))

read_pod(data, offset, w) ==
    IF out_of_range(data, offset, w)
    THEN PodRes(data, "invalid_argument", <<>>, {})
    ELSE PodRes(data, "ok", [i \in 1 .. w |-> ByteAt(data, offset + i - 1)],
                offset .. (offset + w - 1))

\* write_pod that inserts the bytes of value at offset
write_pod_insert(data, offset, value) ==
    IF out_of_range(data, offset, Len(value))
    THEN PodRes(data, "invalid_argument", value, {})
    ELSE PodRes(SubSeq(data, 1, offset) \o value \o SubSeq(data, offset + 1, Len(data)),
                "ok", value, offset .. (offset + Len(value) - 1))

write_pod(data, offset, value) ==
    IF out_of_range(data, offset, Len(value))
    THEN PodRes(data, "invalid_argument", value, {})
    ELSE PodRes([i \in 1 .. Len(data) |->
                    IF i > offset /\ i <= offset + Len(value)
                    THEN value[i - offset] ELSE data[i]],
                "ok", value, offset .. (offset + Len(value) - 1))

\* append_pod that copies to data_.data() instead of data_.data() + old
append_pod_at_front(data, value) ==
    LET grown == data \o [i \in 1 .. Len(value) |-> ZeroByte]
    IN  PodRes([i \in 1 .. Len(grown) |-> IF i <= Len(value) THEN value[i] ELSE grown[i]],
               "ok", value, 0 .. (Len(value) - 1))

append_pod(data, value) ==
    PodRes(data \o value, "ok", value, Len(data) .. (Len(data) + Len(value) - 1))

clear(data) == PodRes(<<>>, "ok", <<>>, {})

\* std::vector<std::byte>::resize: new elements are value-initialised
resize_keeps_garbage(data, n) ==
    PodRes([i \in 1 .. n |-> IF i <= Len(data) THEN data[i] ELSE "x"], "ok", <<>>, {})

resize(data, n) ==
    PodRes([i \in 1 .. n |-> IF i <= Len(data) THEN data[i] ELSE ZeroByte], "ok", <<>>, {})

\* explicit Buffer(size_type size) : data_(size)
Buffer_sized(n) == PodRes([i \in 1 .. n |-> ZeroByte], "ok", <<>>, {})

\* std::memcpy(data_.data() + at, src, Len(src)) within the buffer
memcpy_into(data, at, src) ==
    [i \in 1 .. Len(data) |-> IF i > at /\ i <= at + Len(src) THEN src[i - at] ELSE data[i]]

\* assign(std::string_view) that resizes only when the text is longer
assign_text_no_shrink(data, text) ==
    LET room == IF Len(text) > Len(data) THEN resize(data, Len(text)).data ELSE data
    IN  PodRes(IF text = <<>> THEN room ELSE memcpy_into(room, 0, text), "ok", text, {})

\* assign(std::string_view text): resize, then memcpy unless the text is empty
assign_text(data, text) ==
    LET room == resize(data, Len(text)).data
    IN  PodRes(IF text = <<>> THEN room ELSE memcpy_into(room, 0, text), "ok", text, {})

\* assign(std::span<const std::byte> bytes): data_.assign(begin, end)
assign_bytes(data, bytes) == PodRes(bytes, "ok", bytes, {})

\* append(std::string_view text): nothing for an empty text, else resize and memcpy
append_text(data, text) ==
    IF text = <<>> THEN PodRes(data, "ok", text, {})
    ELSE PodRes(memcpy_into(resize(data, Len(data) + Len(text)).data, Len(data), text),
                "ok", text, {})

\* append(std::span) that inserts at data_.begin()
append_bytes_at_front(data, bytes) ==
    IF bytes = <<>> THEN PodRes(data, "ok", bytes, {})
    ELSE PodRes(bytes \o data, "ok", bytes, {})

\* append(std::span<const std::byte> bytes): nothing for an empty span, else
\* data_.insert(data_.end(), begin, end)
append_bytes(data, bytes) ==
    IF bytes = <<>> THEN PodRes(data, "ok", bytes, {})
    ELSE PodRes(data \o bytes, "ok", bytes, {})

\* bytes() and to_string(): the stored bytes, the latter as characters
Buffer_bytes(data) == data

Buffer_to_string(data) == [i \in 1 .. Len(data) |-> data[i]]

\* op: the call; offset: the offset passed; width: sizeof(T), or the size
\* passed to resize / Buffer(size); value: the value or data passed or
\* returned; before: data_ before the call; touched: indices the call accessed
NoPodCall ==
    [op |-> "none", offset |-> 0, width |-> 0, value |-> <<>>, outcome |-> "ok",
     before |-> <<>>, touched |-> {}]

\* ------------------------------------------------------------------- Init
\* op: the call; h: the object it was made on (0: a free function); src: the
\* object moved from; outcome: what the caller saw ("ok" or the exception);
\* data: the content written or returned; fault: the host reported a fault
\* during the call; existed: the path named existed before it; arg: the mode
\* or policy passed (close, move-assignment: whether the object was open);
\* after: for a read_file_* call, the write_file_* call that returned
\* normally right before it, if that is what preceded it
NoWrite == [op |-> "none", arg |-> "", existed |-> FALSE, data |-> <<>>]

NoCall ==
    [op |-> "none", h |-> 0, src |-> 0, outcome |-> "ok", data |-> <<>>,
     fault |-> FALSE, existed |-> FALSE, arg |-> "", after |-> NoWrite]

WriteHelpers == {"write_file_text", "write_file_binary", "write_text", "write_binary"}
ReadHelpers == {"read_file_text", "read_file_binary", "read_text", "read_binary"}

After(op) ==
    IF op \in ReadHelpers /\ last.op \in WriteHelpers /\ last.outcome = "ok"
    THEN [op |-> last.op, arg |-> last.arg, existed |-> last.existed, data |-> last.data]
    ELSE NoWrite

Init ==
    /\ files \in [Paths -> {NoFile} \cup {[exists |-> TRUE, data |-> c] : c \in Content}]
    /\ fds = [d \in Fds |-> EmptyPath]
    /\ handles = [h \in Handles |-> NoObject]
    /\ last = NoCall
    /\ clock = 0
    /\ issued = <<>>
    /\ data_ = <<>>
    /\ call = NoPodCall

\* ---------------------------------------------------------------- actions
\* Each action is one call of the program.  H is the set of object slots the
\* program uses, D the data it writes, MT the (mode, type) pairs it opens with.
Live(h) == handles[h].live

\* a new object takes the lowest slot of H that holds none
IsNewSlot(H, h) == h \in H /\ ~Live(h) /\ \A g \in H : ~Live(g) => h <= g

\* the model keeps every file within MaxLen bytes
Fits(w) == \A p \in Paths : Len(w.files[p].data) <= MaxLen

Existed(p) == p \in Paths /\ files[p].exists

\* the call op on slot h returned r: the object, the host and the record
\* of the call take the values it computed
Returns(op, h, r, existed, arg) ==
    /\ Fits(r.w)
    /\ handles' = [handles EXCEPT ![h] = r.f]
    /\ files' = r.w.files
    /\ fds' = r.w.fds
    /\ last' = [NoCall EXCEPT !.op = op, !.h = h, !.outcome = r.outcome, !.data = r.data,
                              !.fault = r.fault, !.existed = existed, !.arg = arg]

DefaultConstruct(H) ==
    \E h \in H :
        /\ IsNewSlot(H, h)
        /\ Returns("File", h, Res(DefaultFile, World, "ok", <<>>, FALSE), FALSE, "")

Construct(H, MT) ==
    \E h \in H, p \in Paths \cup {EmptyPath}, mt \in MT, hostOk \in BOOLEAN :
        /\ IsNewSlot(H, h)
        /\ Returns("open", h, open_internal(World, p, mt[1], mt[2], hostOk),
                   Existed(p), mt[1])

MoveConstruct(H) ==
    \E d \in H, s \in H :
        /\ IsNewSlot(H, d)
        /\ Live(s)
        /\ LET r == move_construct(handles[s])
           IN  /\ handles' = [handles EXCEPT ![d] = r.self, ![s] = r.other]
               /\ last' = [NoCall EXCEPT !.op = "move_construct", !.h = d, !.src = s]
        /\ UNCHANGED <<files, fds>>

MoveAssign(H) ==
    \E d \in H, s \in H, fault \in BOOLEAN :
        /\ Live(d)
        /\ Live(s)
        /\ IF d = s
           THEN /\ last' = [NoCall EXCEPT !.op = "move_assign", !.h = d, !.src = s]
                /\ UNCHANGED <<files, fds, handles>>
           ELSE LET r == move_assign(handles[d], handles[s], World, fault)
                IN  /\ Fits(r.w)
                    /\ handles' = [handles EXCEPT ![d] = r.self, ![s] = r.other]
                    /\ files' = r.w.files
                    /\ fds' = r.w.fds
                    /\ last' = [NoCall EXCEPT !.op = "move_assign", !.h = d, !.src = s,
                                              !.fault = r.fault,
                                              !.arg = IF is_open(handles[d])
                                                      THEN "was_open" ELSE "was_closed"]

Close(H) ==
    \E h \in H, fault \in BOOLEAN :
        /\ Live(h)
        /\ Returns("close", h, close(handles[h], World, fault), FALSE,
                   IF is_open(handles[h]) THEN "was_open" ELSE "was_closed")

Destroy(H) ==
    \E h \in H, fault \in BOOLEAN :
        /\ Live(h)
        /\ Returns("destroy", h, destroy(handles[h], World, fault), FALSE, "")

HostFault == {"none", "write", "read"}
FilebufImpl == {"throws", "eof"}
NoFault == {"none"}

ReadAllText(H, F) ==
    \E h \in H, fault \in F, impl \in FilebufImpl, k \in 0 .. MaxLen - 1 :
        /\ Live(h)
        /\ fault # "read" => impl = "eof" /\ k = 0
        /\ Returns("read_all_text", h,
                   read_all_text(handles[h], World, fault, impl, k), FALSE, "")

ReadAllBytes(H, F) ==
    \E h \in H, fault \in F, k \in 0 .. MaxLen - 1 :
        /\ Live(h)
        /\ fault # "read" => k = 0
        /\ Returns("read_all_bytes", h,
                   read_all_bytes(handles[h], World, fault, k), FALSE, "")

WriteText(H, D) ==
    \E h \in H, text \in D, fault \in BOOLEAN :
        /\ Live(h)
        /\ Returns("write_text", h, write(handles[h], World, text, fault), FALSE, "")

WriteBytes(H, D) ==
    \E h \in H, bytes \in D, fault \in BOOLEAN :
        /\ Live(h)
        /\ Returns("write_bytes", h, write_bytes(handles[h], World, bytes, fault), FALSE, "")

Flush(H) ==
    \E h \in H, fault \in BOOLEAN :
        /\ Live(h)
        /\ Returns("flush", h, flush(handles[h], World, fault), FALSE, "")

\* std::filesystem::remove by the caller, on a path no stream is open on
Remove ==
    \E p \in Paths :
        /\ files[p].exists
        /\ \A d \in Fds : fds[d] # p
        /\ files' = [files EXCEPT ![p] = NoFile]
        /\ last' = [NoCall EXCEPT !.op = "remove"]
        /\ UNCHANGED <<fds, handles>>

\* the stage of a free function at which the host reports a fault, if any
HelperFault == {"none", "open", "write", "flush", "close"}

\* a free function returned r
HelperReturns(op, r, existed, arg) ==
    /\ Fits(r.w)
    /\ files' = r.w.files
    /\ fds' = r.w.fds
    /\ last' = [NoCall EXCEPT !.op = op, !.outcome = r.outcome, !.data = r.data,
                              !.fault = r.fault, !.existed = existed, !.arg = arg,
                              !.after = After(op)]
    /\ UNCHANGED handles

WriteFileText(D) ==
    \E p \in Paths, text \in D, mode \in WriteMode,
       fault \in HelperFault :
        HelperReturns("write_file_text",
                      write_file_text(World, p, text, mode, fault # "open",
                          fault = "write", fault = "flush", fault = "close"),
                      Existed(p), mode)

WriteFileBinary(D) ==
    \E p \in Paths, bytes \in D, mode \in WriteMode,
       fault \in HelperFault :
        HelperReturns("write_file_binary",
                      write_file_binary(World, p, bytes, mode, fault # "open",
                          fault = "write", fault = "flush", fault = "close"),
                      Existed(p), mode)

ReadFileText ==
    \E p \in Paths, hostOk \in BOOLEAN, fault \in {"none", "read"},
       impl \in FilebufImpl, k \in 0 .. MaxLen - 1 :
        /\ fault # "read" => impl = "eof" /\ k = 0
        /\ HelperReturns("read_file_text",
                         read_file_text(World, p, hostOk, fault, impl, k), Existed(p), "")

ReadFileBinary ==
    \E p \in Paths, hostOk \in BOOLEAN, fault \in {"none", "read"}, k \in 0 .. MaxLen - 1 :
        /\ fault # "read" => k = 0
        /\ HelperReturns("read_file_binary",
                         read_file_binary(World, p, hostOk, fault, k), Existed(p), "")

WriteTextAlias(D) ==
    \E p \in Paths, text \in D, mode \in WriteMode,
       fault \in HelperFault :
        HelperReturns("write_text",
                      write_text(World, p, text, mode, fault # "open",
                          fault = "write", fault = "flush", fault = "close"),
                      Existed(p), mode)

WriteBinaryAlias(D) ==
    \E p \in Paths, bytes \in D, mode \in WriteMode,
       fault \in HelperFault :
        HelperReturns("write_binary",
                      write_binary(World, p, bytes, mode, fault # "open",
                          fault = "write", fault = "flush", fault = "close"),
                      Existed(p), mode)

ReadTextAlias ==
    \E p \in Paths, hostOk \in BOOLEAN, fault \in {"none", "read"},
       impl \in FilebufImpl, k \in 0 .. MaxLen - 1 :
        /\ fault # "read" => impl = "eof" /\ k = 0
        /\ HelperReturns("read_text",
                         read_text(World, p, hostOk, fault, impl, k), Existed(p), "")

ReadBinaryAlias ==
    \E p \in Paths, hostOk \in BOOLEAN, fault \in {"none", "read"}, k \in 0 .. MaxLen - 1 :
        /\ fault # "read" => k = 0
        /\ HelperReturns("read_binary",
                         read_binary(World, p, hostOk, fault, k), Existed(p), "")

\* --------------------------------------------------------- specifications
\* Spec: one File object, every mode and type, every content, every fault.
TryReadFileText ==
    \E p \in Paths, hostOk \in BOOLEAN, fault \in {"none", "read"},
       impl \in FilebufImpl, k \in 0 .. MaxLen - 1 :
        /\ fault # "read" => impl = "eof" /\ k = 0
        /\ HelperReturns("try_read_file_text",
                         try_read_file_text(World, p, hostOk, fault, impl, k), Existed(p), p)

TryReadFileBinary ==
    \E p \in Paths, hostOk \in BOOLEAN, fault \in {"none", "read"}, k \in 0 .. MaxLen - 1 :
        /\ fault # "read" => k = 0
        /\ HelperReturns("try_read_file_binary",
                         try_read_file_binary(World, p, hostOk, fault, k), Existed(p), p)

\* the call made right before, when it is a write_file_* call that returned
\* normally or a removal
Preceding ==
    IF (last.op \in WriteHelpers /\ last.outcome = "ok") \/ last.op = "remove"
    THEN [op |-> last.op, arg |-> last.arg, existed |-> last.existed, data |-> last.data]
    ELSE NoWrite

PathExists ==
    \E p \in Paths, hostOk \in BOOLEAN :
        /\ last' = [NoCall EXCEPT !.op = "path_exists",
                                  !.outcome = IF path_exists(World, p, hostOk)
                                              THEN "true" ELSE "false",
                                  !.fault = ~hostOk, !.existed = Existed(p), !.arg = p,
                                  !.after = Preceding]
        /\ UNCHANGED <<files, fds, handles>>

One == {1}
AllModes == FileMode \X FileType

Next ==
    \/ DefaultConstruct(One) /\ UNCHANGED others
    \/ Construct(One, AllModes) /\ UNCHANGED others
    \/ Close(One) /\ UNCHANGED others
    \/ Destroy(One) /\ UNCHANGED others
    \/ ReadAllText(One, HostFault) /\ UNCHANGED others
    \/ ReadAllBytes(One, HostFault) /\ UNCHANGED others
    \/ WriteText(One, Content) /\ UNCHANGED others
    \/ WriteBytes(One, Content) /\ UNCHANGED others
    \/ Flush(One) /\ UNCHANGED others
    \/ Remove /\ UNCHANGED others

Spec == Init /\ [][Next]_vars


\* SpecMove: several File objects that are moved into one another, beside
\* the free functions.  The objects are opened with one (mode, type) pair per
\* mode and type, their writes carry no data and their reads meet no host
\* fault; write_file_* write one byte (buffered) or two (unbuffered).
NoData == {<<>>}
HelperData == {<<"x">>, <<"x", "x">>}
SomeModes == {<<"read", "text">>, <<"write", "binary">>,
              <<"append", "text">>, <<"read_write", "binary">>}

InitMove ==
    /\ files \in [Paths -> {NoFile, [exists |-> TRUE, data |-> <<>>]}]
    /\ fds = [d \in Fds |-> EmptyPath]
    /\ handles = [h \in Handles |-> NoObject]
    /\ last = NoCall
    /\ clock = 0
    /\ issued = <<>>
    /\ data_ = <<>>
    /\ call = NoPodCall

NextMove ==
    \/ DefaultConstruct(Handles) /\ UNCHANGED others
    \/ Construct(Handles, SomeModes) /\ UNCHANGED others
    \/ MoveConstruct(Handles) /\ UNCHANGED others
    \/ MoveAssign(Handles) /\ UNCHANGED others
    \/ Close(Handles) /\ UNCHANGED others
    \/ Destroy(Handles) /\ UNCHANGED others
    \/ ReadAllText(Handles, NoFault) /\ UNCHANGED others
    \/ ReadAllBytes(Handles, NoFault) /\ UNCHANGED others
    \/ WriteText(Handles, NoData) /\ UNCHANGED others
    \/ WriteBytes(Handles, NoData) /\ UNCHANGED others
    \/ Flush(Handles) /\ UNCHANGED others
    \/ WriteFileText(HelperData) /\ UNCHANGED others
    \/ WriteFileBinary(HelperData) /\ UNCHANGED others
    \/ Remove /\ UNCHANGED others

SpecMove == InitMove /\ [][NextMove]_vars

\* SpecIO: the free functions alone, on every content
NextIO ==
    \/ WriteFileText(Content) /\ UNCHANGED others
    \/ WriteFileBinary(Content) /\ UNCHANGED others
    \/ ReadFileText /\ UNCHANGED others
    \/ ReadFileBinary /\ UNCHANGED others
    \/ WriteTextAlias(Content) /\ UNCHANGED others
    \/ WriteBinaryAlias(Content) /\ UNCHANGED others
    \/ ReadTextAlias /\ UNCHANGED others
    \/ ReadBinaryAlias /\ UNCHANGED others
    \/ Remove /\ UNCHANGED others

SpecIO == Init /\ [][NextIO]_vars


\* ================================================================= claims
ReadOps == {"read_all_text", "read_all_bytes"}
WriteOps == {"write_text", "write_bytes"}
FileOps == ReadOps \cup WriteOps \cup {"flush"}
ModeErrors == {"not_open", "not_readable", "not_writable"}

\* the host as the step leaves it
WorldAfter == [files |-> files', fds |-> fds']

\* C1: on an open File, read_all_text / read_all_bytes pass the mode check
\* exactly when the mode is read or read_write, write(text) / write(bytes)
\* exactly when it is write, append or read_write; every other call is
\* rejected as not readable / not writable.  The type plays no part.
C1_ModeDecidesAccess ==
    (last.op \in ReadOps \cup WriteOps /\ is_open(handles[last.h])) =>
        LET m == handles[last.h].mode_
        IN  /\ last.op \in ReadOps =>
                   IF m \in {"read", "read_write"}
                   THEN last.outcome \notin ModeErrors
                   ELSE last.outcome = "not_readable"
            /\ last.op \in WriteOps =>
                   IF m \in {"write", "append", "read_write"}
                   THEN last.outcome \notin ModeErrors
                   ELSE last.outcome = "not_writable"

C1_Witness ==
    /\ last.op = "write_bytes"
    /\ last.outcome = "not_writable"
    /\ is_open(handles[last.h])
    /\ handles[last.h].type_ = "binary"

\* C2: on a File that is not open (default-constructed, closed, moved-from),
\* read_all_text, read_all_bytes, write(text), write(bytes) and flush all
\* fail with "not open", whatever its mode and type.
ClosedRejects(f) ==
    /\ read_all_text(f, World, "none", "eof", 0).outcome = "not_open"
    /\ read_all_bytes(f, World, "none", 0).outcome = "not_open"
    /\ \A x \in Content :
           /\ write(f, World, x, FALSE).outcome = "not_open"
           /\ write_bytes(f, World, x, FALSE).outcome = "not_open"
    /\ flush(f, World, FALSE).outcome = "not_open"

C2_ClosedRejectsIO ==
    /\ (last.op \in FileOps /\ handles[last.h].live /\ ~is_open(handles[last.h])) =>
           last.outcome = "not_open"
    /\ \A h \in Handles, m \in FileMode, t \in FileType :
           (handles[h].live /\ ~is_open(handles[h])) =>
               ClosedRejects([handles[h] EXCEPT !.mode_ = m, !.type_ = t])

\* flush was rejected on a moved-from object (no path, a mode other than the default)
C2_Witness ==
    /\ last.op = "flush"
    /\ last.outcome = "not_open"
    /\ handles[last.h].path_ = EmptyPath
    /\ handles[last.h].mode_ = "append"

\* C3: no two File objects own the same host stream, and an object without
\* a File owns none.
C3_ExclusiveOwnership ==
    /\ \A g \in Handles, h \in Handles :
           (g # h /\ is_open(handles[g]) /\ is_open(handles[h])) =>
               handles[g].stream_.fd # handles[h].stream_.fd
    /\ \A h \in Handles : ~handles[h].live => ~is_open(handles[h])

\* a move-assignment has handed an open stream from one object to another
C3_Witness ==
    /\ last.op = "move_assign"
    /\ last.h # last.src
    /\ is_open(handles[last.h])
    /\ handles[last.src].live

\* C4: the descriptors open at the host are exactly those owned by live open
\* File objects: destruction, close(), move-assignment and every way out of
\* a free function (also by an exception) release the stream.
OpenFds == {d \in Fds : fds[d] # EmptyPath}

OwnedFds == {handles[h].stream_.fd : h \in {g \in Handles : is_open(handles[g])}}

ReadHelpersRelease ==
    \A p \in Paths, hostOk \in BOOLEAN, fault \in {"none", "read"}, impl \in FilebufImpl :
        /\ read_file_text(World, p, hostOk, fault, impl, 0).w.fds = fds
        /\ read_file_binary(World, p, hostOk, fault, 0).w.fds = fds

C4_NoStreamLeak ==
    /\ OpenFds = OwnedFds
    /\ \A h \in Handles : is_open(handles[h]) => handles[h].live
    /\ ReadHelpersRelease

\* write_file_* left by an exception from write or flush, beside an open File
C4_Witness ==
    /\ last.op \in WriteHelpers
    /\ last.outcome \in {"write_failed", "flush_failed"}
    /\ \E h \in Handles : is_open(handles[h])

\* C5: File(path, mode, type) either yields an open object or raises the
\* open error and leaves no object and no host stream behind; a missing path
\* opened for reading raises.  A live object is open or closed, never between.
C5_OpenIsAtomic ==
    /\ last.op = "open" =>
          /\ last.outcome \in {"ok", "open_failed"}
          /\ last.outcome = "ok" =>
                 /\ handles[last.h].live
                 /\ is_open(handles[last.h])
          /\ last.outcome = "open_failed" =>
                 /\ ~handles[last.h].live
                 /\ OpenFds = {}
          /\ (last.arg = "read" /\ ~last.existed) => last.outcome = "open_failed"
    /\ \A h \in Handles :
          handles[h].live =>
              IF is_open(handles[h])
              THEN fds[handles[h].stream_.fd] = handles[h].path_
              ELSE handles[h].stream_ = ClosedStream

C5_Witness ==
    /\ last.op = "open"
    /\ last.outcome = "open_failed"
    /\ last.arg = "read"
    /\ ~last.existed
    /\ ~last.fault

\* C6: a move (construction or assignment) from S into another object D
\* gives D the openness, path, mode and type S had; S is left closed with an
\* empty path and rejects every read_all_*, write and flush.
C6_MoveTransfers ==
    [][(last'.op \in {"move_construct", "move_assign"} /\ last'.h # last'.src) =>
          LET d == last'.h
              s == last'.src
          IN  /\ is_open(handles'[d]) = is_open(handles[s])
              /\ handles'[d].stream_ = handles[s].stream_
              /\ handles'[d].path_ = handles[s].path_
              /\ handles'[d].mode_ = handles[s].mode_
              /\ handles'[d].type_ = handles[s].type_
              /\ ~is_open(handles'[s])
              /\ handles'[s].path_ = EmptyPath
              /\ read_all_text(handles'[s], WorldAfter, "none", "eof", 0).outcome = "not_open"
              /\ read_all_bytes(handles'[s], WorldAfter, "none", 0).outcome = "not_open"
              /\ write(handles'[s], WorldAfter, <<>>, FALSE).outcome = "not_open"
              /\ write_bytes(handles'[s], WorldAfter, <<>>, FALSE).outcome = "not_open"
              /\ flush(handles'[s], WorldAfter, FALSE).outcome = "not_open"
      ]_vars

\* an open binary File was moved into a new object
C6_Witness ==
    /\ last.op = "move_construct"
    /\ is_open(handles[last.h])
    /\ handles[last.h].type_ = "binary"
    /\ handles[last.src].live
    /\ handles[last.src].path_ = EmptyPath

\* C7: close() never raises and leaves the object closed, also when the host
\* faults while the pending output is written; on a closed object it changes
\* nothing, so close(); close() leaves what a single close() leaves.
C7_CloseIdempotent ==
    [][last'.op = "close" =>
          LET h == last'.h
          IN  /\ last'.outcome = "ok"
              /\ ~is_open(handles'[h])
              /\ ~is_open(handles[h]) => UNCHANGED <<files, fds, handles>>
              /\ \A fault \in BOOLEAN :
                     LET r == close(handles'[h], WorldAfter, fault)
                     IN  /\ r.outcome = "ok"
                         /\ r.f = handles'[h]
                         /\ r.w = WorldAfter
      ]_vars

\* close() met a host fault on the pending output and still closed the object
C7_Witness ==
    /\ last.op = "close"
    /\ last.arg = "was_open"
    /\ last.fault
    /\ last.outcome = "ok"
    /\ handles[last.h].live
    /\ ~is_open(handles[last.h])

\* C8 as claimed: once close() has closed an open File, no later call on
\* that object, a move-assignment into it included, makes it open again.
\* Stated for the call that follows the close().
C8_ClosedIsTerminal ==
    [][\A h \in Handles :
          (/\ last.op = "close"
           /\ last.h = h
           /\ last.arg = "was_open"
           /\ handles[h].live
           /\ handles'[h].live) => ~is_open(handles'[h])
      ]_vars

\* C8 as amended: a closed File stays closed under read_all_*, write, flush
\* and close; a move-assignment into it leaves it open exactly when the
\* object moved from was open.
C8_ReopenOnlyByMoveAssign ==
    [][\A h \in Handles :
          (handles[h].live /\ ~is_open(handles[h]) /\ handles'[h].live) =>
              (is_open(handles'[h]) <=>
                  /\ last'.op = "move_assign"
                  /\ last'.h = h
                  /\ last'.src # h
                  /\ is_open(handles[last'.src]))
      ]_vars

\* a move-assignment into a closed File has left it open
C8_Witness ==
    /\ last.op = "move_assign"
    /\ last.arg = "was_closed"
    /\ is_open(handles[last.h])
    /\ handles[last.h].mode_ = "read_write"

\* C9: no read_all_*, write or flush call on an open File, returning or
\* raising, changes its mode() or type().
C9_ModeTypeFixed ==
    [][\A h \in Handles :
          (is_open(handles[h]) /\ last'.op \in FileOps /\ last'.h = h) =>
              /\ handles'[h].mode_ = handles[h].mode_
              /\ handles'[h].type_ = handles[h].type_
      ]_vars

C9_Witness ==
    /\ last.op = "read_all_text"
    /\ last.outcome = "ok"
    /\ last.data # <<>>
    /\ is_open(handles[last.h])
    /\ handles[last.h].mode_ = "read_write"
    /\ handles[last.h].type_ = "binary"

\* C10: write_file_text(p, s) with the truncate policy on a path that does
\* not exist, followed by read_file_text(p), returns exactly s when the host
\* reports no fault; the same for write_file_binary / read_file_binary (where
\* a host fault makes the read raise) and for the deprecated aliases.
TextWriters == {"write_file_text", "write_text"}
TextReaders == {"read_file_text", "read_text"}
BinaryWriters == {"write_file_binary", "write_binary"}
BinaryReaders == {"read_file_binary", "read_binary"}

AfterFreshWrite(writers) ==
    /\ last.after.op \in writers
    /\ last.after.arg = "truncate"
    /\ ~last.after.existed

C10_WriteReadRoundTrip ==
    /\ (last.op \in TextReaders /\ AfterFreshWrite(TextWriters) /\ ~last.fault) =>
           (last.outcome = "ok" /\ last.data = last.after.data)
    /\ (last.op \in BinaryReaders /\ AfterFreshWrite(BinaryWriters)) =>
           IF last.fault THEN last.outcome # "ok"
           ELSE last.outcome = "ok" /\ last.data = last.after.data

C10_Witness ==
    /\ last.op = "read_text"
    /\ AfterFreshWrite({"write_text"})
    /\ last.outcome = "ok"
    /\ ~last.fault
    /\ last.data = <<"x", "0">>

\* what the file behind an open File holds
ContentOf(f) == files[f.path_].data

\* C11: a write_file_* call with the append policy leaves the previous
\* content followed by exactly the new bytes, one with the truncate policy
\* leaves exactly the new bytes, and a read_file_* call returns the content
\* of the file; so write(a), write(b, append), read returns a followed by b.
C11_AppendKeepsPrefix ==
    [][/\ (last'.op \in WriteHelpers /\ last'.outcome = "ok") =>
              \E p \in Paths :
                  LET old == IF files[p].exists THEN files[p].data ELSE <<>>
                  IN  /\ files'[p].exists
                      /\ files'[p].data = IF last'.arg = "append"
                                          THEN old \o last'.data
                                          ELSE last'.data
                      /\ \A q \in Paths \ {p} : files'[q] = files[q]
       /\ (last'.op \in ReadHelpers /\ last'.outcome = "ok" /\ ~last'.fault) =>
              /\ files' = files
              /\ \E p \in Paths : files[p].exists /\ last'.data = files[p].data
      ]_vars

\* read_file_text returned a followed by b right after b was appended to a
C11_Witness ==
    /\ last.op = "read_file_text"
    /\ last.outcome = "ok"
    /\ last.after.op = "write_file_text"
    /\ last.after.arg = "append"
    /\ last.after.existed
    /\ last.after.data = <<"0">>
    /\ last.data = <<"x", "0">>

\* C12: File(p, mode, type) on an existing file empties it at once in write
\* mode and leaves its content as it was in read, append and read_write
\* mode, whatever the type; a call rejected afterwards changes no file.
C12_OnlyWriteTruncates ==
    [][/\ (last'.op = "open" /\ last'.outcome = "ok" /\ last'.existed) =>
              LET p == handles'[last'.h].path_
              IN  /\ files'[p].exists
                  /\ files'[p].data = IF last'.arg = "write" THEN <<>> ELSE files[p].data
       /\ (last'.op \in FileOps /\ last'.outcome \in ModeErrors) => files' = files
      ]_vars

\* a binary File opened for writing on an existing file had its only call
\* rejected, and the file is empty
C12_Witness ==
    /\ last.op = "read_all_bytes"
    /\ last.outcome = "not_readable"
    /\ is_open(handles[last.h])
    /\ handles[last.h].mode_ = "write"
    /\ handles[last.h].type_ = "binary"
    /\ ContentOf(handles[last.h]) = <<>>

\* C13: when the host reports no fault, read_all_text and read_all_bytes on
\* an open readable File return the whole content of the file from its
\* first byte, wherever earlier reads and writes left the stream position,
\* and a second read-all right after the first returns the same content.
C13_ReadAllRewinds ==
    [][\A h \in Handles :
          (/\ last'.op \in ReadOps
           /\ last'.h = h
           /\ is_open(handles[h])
           /\ mode_can_read(handles[h].mode_)
           /\ ~last'.fault) =>
              /\ last'.outcome = "ok"
              /\ last'.data = files'[handles'[h].path_].data
              /\ (last.op \in ReadOps /\ last.h = h /\ last.outcome = "ok" /\ ~last.fault) =>
                     last'.data = last.data
      ]_vars

\* read_all_bytes on a read_write File returned two bytes after a write
\* through the same File had moved the stream position
C13_Witness ==
    /\ last.op = "read_all_bytes"
    /\ last.outcome = "ok"
    /\ ~last.fault
    /\ handles[last.h].mode_ = "read_write"
    /\ handles[last.h].stream_.pos = 2
    /\ last.data = <<"x", "0">>

\* C14: read_all_text and read_all_bytes return the entire content of the
\* file or raise; they never return normally with less.
C14_NoPartialRead ==
    (last.op \in ReadOps /\ is_open(handles[last.h]) /\ last.outcome = "ok") =>
        last.data = ContentOf(handles[last.h])

\* ----------------------------------------------------------------------
\* SpecUtil: the non-throwing readers and path_exists, beside write_file_*
\* and removal of the file.
NextUtil ==
    \/ WriteFileText(HelperData) /\ UNCHANGED others
    \/ WriteFileBinary(HelperData) /\ UNCHANGED others
    \/ TryReadFileText /\ UNCHANGED others
    \/ TryReadFileBinary /\ UNCHANGED others
    \/ PathExists /\ UNCHANGED others
    \/ Remove /\ UNCHANGED others

SpecUtil == Init /\ [][NextUtil]_vars

\* C15: try_read_file_text / try_read_file_binary never raise; they return
\* an absent value exactly when read_file_text / read_file_binary raises on
\* the same path and host (always for a missing path), and otherwise the
\* content that call returns.
TryReaders == {"try_read_file_text", "try_read_file_binary"}

Agrees(r) ==
    /\ r.fault = last'.fault
    /\ r.w = WorldAfter
    /\ IF r.outcome = "ok"
       THEN last'.outcome = "value" /\ last'.data = r.data
       ELSE last'.outcome = "absent"

C15_TryReadNeverRaises ==
    [][last'.op \in TryReaders =>
          LET p == last'.arg
              text == last'.op = "try_read_file_text"
          IN  /\ last'.outcome \in {"value", "absent"}
              /\ ~last'.existed => last'.outcome = "absent"
              /\ ~last'.fault =>
                     Agrees(IF text THEN read_file_text(World, p, TRUE, "none", "eof", 0)
                            ELSE read_file_binary(World, p, TRUE, "none", 0))
              /\ last'.fault =>
                     \E hostOk \in BOOLEAN, fault \in {"none", "read"},
                        impl \in FilebufImpl, k \in 0 .. MaxLen - 1 :
                         Agrees(IF text THEN read_file_text(World, p, hostOk, fault, impl, k)
                                ELSE read_file_binary(World, p, hostOk, fault, k))
      ]_vars

\* try_read_file_text on a missing path, no host fault: absent
C15_Witness ==
    /\ last.op = "try_read_file_text"
    /\ last.outcome = "absent"
    /\ ~last.existed
    /\ ~last.fault

\* C16: path_exists never fails; when the host can give the status of the
\* path it answers false for a path that does not exist (never created, or
\* removed) and true for one that does, so true right after a write_file_*
\* call that returned normally and false right after the removal.
C16_PathExistsTracksFile ==
    last.op = "path_exists" =>
        /\ last.outcome \in {"true", "false"}
        /\ ~last.fault => (last.outcome = "true" <=> last.existed)
        /\ last.existed = files[last.arg].exists
        /\ (last.after.op \in WriteHelpers /\ ~last.fault) => last.outcome = "true"
        /\ last.after.op = "remove" => last.outcome = "false"
        /\ ~last.existed => last.outcome = "false"

\* path_exists answered false right after the removal of a file
C16_Witness ==
    /\ last.op = "path_exists"
    /\ last.after.op = "remove"
    /\ last.outcome = "false"
    /\ ~last.fault

\* ----------------------------------------------------------------------
\* SpecTemp: calls of temp_path while the steady clock runs.
Tick ==
    /\ clock < MaxClock
    /\ clock' = clock + 1
    /\ UNCHANGED <<filevars, issued, data_, call>>

TempPath ==
    \E prefix \in Prefixes, tmpOk \in BOOLEAN :
        /\ Len(issued) < MaxCalls
        /\ LET r == temp_path(prefix, clock, tmpOk)
           IN  issued' = Append(issued, [prefix |-> prefix, now |-> clock,
                                         outcome |-> r.outcome, path |-> r.path])
        /\ UNCHANGED <<filevars, clock, data_, call>>

NextTemp ==
    \/ Tick
    \/ TempPath

SpecTemp == Init /\ [][NextTemp]_vars

\* ----------------------------------------------------------------------
\* SpecBuf: the POD calls on one Buffer, constructed from any content.
InitBuf ==
    /\ files = [p \in Paths |-> NoFile]
    /\ fds = [d \in Fds |-> EmptyPath]
    /\ handles = [h \in Handles |-> NoObject]
    /\ last = NoCall
    /\ clock = 0
    /\ issued = <<>>
    /\ data_ \in BufContent
    /\ call = NoPodCall

PodReturns(op, offset, width, r) ==
    /\ Len(r.data) <= MaxBuf
    /\ data_' = r.data
    /\ call' = [op |-> op, offset |-> offset, width |-> width, value |-> r.value,
                outcome |-> r.outcome, before |-> data_, touched |-> r.touched]
    /\ UNCHANGED <<filevars, clock, issued>>

AppendPod ==
    \E v \in PodValues : PodReturns("append_pod", size(data_), Len(v), append_pod(data_, v))

ReadPod ==
    \E offset \in 0 .. SizeMax, w \in PodWidths :
        PodReturns("read_pod", offset, w, read_pod(data_, offset, w))

WritePod ==
    \E offset \in 0 .. SizeMax, v \in PodValues :
        PodReturns("write_pod", offset, Len(v), write_pod(data_, offset, v))

Clear == PodReturns("clear", 0, 0, clear(data_))

AssignText ==
    \E x \in BufContent : PodReturns("assign_text", 0, 0, assign_text(data_, x))

AssignBytes ==
    \E x \in BufContent : PodReturns("assign_bytes", 0, 0, assign_bytes(data_, x))

AppendText ==
    \E x \in BufContent : PodReturns("append_text", 0, 0, append_text(data_, x))

AppendBytes ==
    \E x \in BufContent : PodReturns("append_bytes", 0, 0, append_bytes(data_, x))

Resize ==
    \E n \in 0 .. MaxBuf : PodReturns("resize", 0, n, resize(data_, n))

\* a Buffer constructed with Buffer(n) takes the place of the old one
ConstructSized ==
    \E n \in 0 .. MaxBuf : PodReturns("Buffer", 0, n, Buffer_sized(n))

NextBuf ==
    \/ AppendPod
    \/ ReadPod
    \/ WritePod
    \/ Clear
    \/ AssignText
    \/ AssignBytes
    \/ AppendText
    \/ AppendBytes
    \/ Resize
    \/ ConstructSized

SpecBuf == InitBuf /\ [][NextBuf]_vars

\* C17: any two temp_path calls made with the same prefix return different
\* paths, whatever the steady clock read at each call.
C17_TempPathsDiffer ==
    \A i \in DOMAIN issued, j \in DOMAIN issued :
        (/\ i < j
         /\ issued[i].outcome = "ok"
         /\ issued[j].outcome = "ok"
         /\ issued[i].prefix = issued[j].prefix) => issued[i].path # issued[j].path

PodAccess == {"read_pod", "write_pod"}

\* C18: on a buffer of size n, read_pod<T>(o) and write_pod<T>(o, v) with
\* w = sizeof(T) fail with the bounds error exactly when o > n or o + w > n
\* (as integers), succeed otherwise, and touch no byte at an index >= n.
C18_PodBoundsCheck ==
    call.op \in PodAccess =>
        LET n == Len(call.before)
        IN  /\ call.outcome \in {"ok", "invalid_argument"}
            /\ call.outcome = "invalid_argument" <=>
                   (call.offset > n \/ call.offset + call.width > n)
            /\ \A i \in call.touched : i < n
            /\ call.outcome = "ok" =>
                   call.touched = call.offset .. (call.offset + call.width - 1)

\* write_pod of a two-byte value succeeded at the last valid offset n - 2
C18_Witness ==
    /\ call.op = "write_pod"
    /\ call.outcome = "ok"
    /\ call.width = 2
    /\ call.offset = 1
    /\ Len(call.before) = 3

\* C19: append_pod(v) on a buffer of size n makes the size n + sizeof(T),
\* keeps the first n bytes, and read_pod<T>(n) then returns v.
C19_AppendPodRoundTrip ==
    call.op = "append_pod" =>
        LET n == Len(call.before)
            r == read_pod(data_, n, call.width)
        IN  /\ call.outcome = "ok"
            /\ call.width = Len(call.value)
            /\ size(data_) = n + call.width
            /\ SubSeq(data_, 1, n) = call.before
            /\ r.outcome = "ok"
            /\ r.value = call.value

\* a two-byte value was appended to a buffer that held one byte
C19_Witness ==
    /\ call.op = "append_pod"
    /\ call.before = <<"0">>
    /\ call.value = <<"x", "0">>
    /\ data_ = <<"0", "x", "0">>

\* C20: write_pod<T>(o, v) with o + sizeof(T) <= size() puts the bytes of v
\* at [o, o + sizeof(T)) and changes nothing else: the size and every other
\* byte stay, and read_pod<T>(o) then returns v.
C20_WritePodInPlace ==
    (call.op = "write_pod" /\ call.offset + call.width <= Len(call.before)) =>
        LET o == call.offset
            w == call.width
            r == read_pod(data_, o, w)
        IN  /\ call.outcome = "ok"
            /\ w = Len(call.value)
            /\ size(data_) = Len(call.before)
            /\ \A i \in 1 .. Len(data_) :
                   data_[i] = IF i > o /\ i <= o + w THEN call.value[i - o]
                              ELSE call.before[i]
            /\ r.outcome = "ok"
            /\ r.value = call.value

\* a two-byte value replaced the middle and last byte of a three-byte buffer
C20_Witness ==
    /\ call.op = "write_pod"
    /\ call.outcome = "ok"
    /\ call.before = <<"x", "0", "0">>
    /\ call.offset = 1
    /\ call.value = <<"x", "x">>
    /\ data_ = <<"x", "x", "x">>

\* C21: a read_pod or write_pod call that fails the bounds check leaves
\* size() and every byte of the buffer as they were, and write_pod never
\* changes size(), whatever the offset.
C21_FailedPodLeavesBuffer ==
    call.op \in PodAccess =>
        /\ call.outcome = "invalid_argument" => data_ = call.before
        /\ call.op = "write_pod" => size(data_) = Len(call.before)
        /\ call.op = "read_pod" => data_ = call.before

\* write_pod at offset = size() of a buffer with content was refused
C21_Witness ==
    /\ call.op = "write_pod"
    /\ call.outcome = "invalid_argument"
    /\ call.offset = Len(call.before)
    /\ call.before = <<"x", "0">>
    /\ data_ = <<"x", "0">>

Assigns == {"assign_text", "assign_bytes"}

\* C22: after assign(x), and after Buffer(x), the buffer holds exactly x:
\* size() is the length of x, bytes() and to_string() give x, whatever the
\* buffer held before.
C22_AssignReplaces ==
    /\ call.op \in Assigns =>
           /\ call.outcome = "ok"
           /\ size(data_) = Len(call.value)
           /\ Buffer_bytes(data_) = call.value
           /\ Buffer_to_string(data_) = call.value
    /\ \A x \in BufContent :
           /\ assign_text(<<>>, x).data = x
           /\ assign_bytes(<<>>, x).data = x

\* a one-byte text replaced three other bytes
C22_Witness ==
    /\ call.op = "assign_text"
    /\ call.before = <<"x", "x", "x">>
    /\ call.value = <<"0">>
    /\ data_ = <<"0">>

Appends == {"append_text", "append_bytes"}

\* C23: after append(d) on a buffer holding c the buffer holds c followed
\* by d and size() is |c| + |d|; an empty d leaves the buffer as it was.
C23_AppendConcatenates ==
    call.op \in Appends =>
        /\ call.outcome = "ok"
        /\ data_ = call.before \o call.value
        /\ size(data_) = Len(call.before) + Len(call.value)
        /\ call.value = <<>> => data_ = call.before

C23_Witness ==
    /\ call.op = "append_bytes"
    /\ call.before = <<"x">>
    /\ call.value = <<"0", "x">>
    /\ data_ = <<"x", "0", "x">>

\* C24: resize(n) makes size() n, keeps the first min(old size, n) bytes
\* and makes every byte from the old size on zero; Buffer(n) holds n zero
\* bytes; clear() makes size() 0.
C24_ResizeZeroFills ==
    /\ call.op = "resize" =>
           LET old == Len(call.before)
           IN  /\ size(data_) = call.width
               /\ \A i \in 1 .. Len(data_) :
                      data_[i] = IF i <= old THEN call.before[i] ELSE ZeroByte
    /\ call.op = "Buffer" =>
           /\ size(data_) = call.width
           /\ \A i \in 1 .. Len(data_) : data_[i] = ZeroByte
    /\ call.op = "clear" => size(data_) = 0

\* resize(3) on a buffer holding one non-zero byte
C24_Witness ==
    /\ call.op = "resize"
    /\ call.before = <<"x">>
    /\ call.width = 3
    /\ data_ = <<"x", "0", "0">>

\* C28: read_pod / write_pod succeed only when o <= size() and
\* size() - o >= sizeof(T); every offset o > SIZE_MAX - sizeof(T), where
\* o + sizeof(T) wraps around, is refused.
C28_NoWrapAround ==
    call.op \in PodAccess =>
        LET n == Len(call.before)
        IN  /\ call.outcome = "ok" =>
                   (call.offset <= n /\ n - call.offset >= call.width)
            /\ call.offset > SizeMax - call.width => call.outcome = "invalid_argument"

\* write_pod at offset SIZE_MAX with a two-byte value, on a buffer that
\* holds more than the wrapped sum
C28_Witness ==
    /\ call.op = "write_pod"
    /\ call.offset = SizeMax
    /\ call.width = 2
    /\ SizeAdd(call.offset, call.width) <= Len(call.before)
    /\ call.outcome = "invalid_argument"

\* what the file behind an open File holds once the pending output of its
\* stream has been delivered
Delivered(f, w) ==
    LET s    == f.stream_
        data == w.files[f.path_].data
    IN  IF s.buf = <<>> THEN data
        ELSE IF "app" \in s.om THEN data \o s.buf
        ELSE Overwrite(data, s.pos, s.buf)

\* what a fresh read_file_text / read_file_binary of path p sees
FreshRead(w, p) ==
    {read_file_text(w, p, TRUE, "none", "eof", 0),
     read_file_binary(w, p, TRUE, "none", 0)}

\* C25 as stated: every close() and every destruction, whatever the host
\* does, leaves all data written through the handle in the file.
C25_CloseNeverLosesData ==
    [][\A h \in Handles :
           (/\ last'.h = h
            /\ last'.op \in {"close", "destroy"}
            /\ handles[h].live
            /\ is_open(handles[h])) =>
               files'[handles[h].path_].data = Delivered(handles[h], World)]_vars

\* C25 (amended): when the host takes the data, data accepted by write() is
\* in the file or in the pending output of the stream, and a flush(), a
\* close() or the destructor puts all pending output into the file, where a
\* fresh read_file_* sees it. When the host refuses the data at close() or
\* destruction, the call still returns normally and the file is left as
\* it was.
C25_WrittenDataReachesFile ==
    [][/\ \A h \in Handles :
           (last'.h = h /\ handles[h].live /\ is_open(handles[h]) /\ ~last'.fault) =>
               LET f    == handles[h]
                   p    == f.path_
                   s    == f.stream_
                   x    == last'.data
                   whole == Delivered(f, World)
               IN  /\ (last'.op \in WriteOps /\ last'.outcome = "ok") =>
                          Delivered(handles'[h], WorldAfter) =
                              IF "app" \in s.om THEN whole \o x
                              ELSE Overwrite(whole, s.pos + Len(s.buf), x)
                   /\ \/ last'.op = "flush" /\ last'.outcome = "ok"
                      \/ last'.op \in {"close", "destroy"}
                      => /\ files'[p].data = whole
                         /\ \A r \in FreshRead(WorldAfter, p) :
                                r.outcome = "ok" /\ r.data = whole
       /\ (last'.op \in {"close", "destroy"} /\ last'.fault) =>
              (last'.outcome = "ok" /\ files' = files)]_vars

\* a handle opened for writing was closed and the file holds the byte written
C25_Witness ==
    /\ last.op = "close"
    /\ last.arg = "was_open"
    /\ ~last.fault
    /\ handles[last.h].mode_ = "write"
    /\ files["a"].data = <<"x">>

\* C26: a read_all_*, write or flush call that is rejected because the
\* handle is closed or its mode forbids the call changes neither the handle
\* (is_open, path, mode, type, stream position, pending output) nor any
\* file, and the calls the mode allows still succeed afterwards.
C26_RejectedCallChangesNothing ==
    [][(last'.op \in FileOps /\ last'.outcome \in ModeErrors) =>
           /\ handles' = handles
           /\ files' = files
           /\ fds' = fds
           /\ LET f == handles'[last'.h]
              IN  (is_open(f) /\ ~f.stream_.bad) =>
                      /\ flush(f, WorldAfter, FALSE).outcome = "ok"
                      /\ mode_can_write(f.mode_) =>
                             \A x \in Content :
                                 /\ write(f, WorldAfter, x, FALSE).outcome = "ok"
                                 /\ write_bytes(f, WorldAfter, x, FALSE).outcome = "ok"
                      /\ mode_can_read(f.mode_) =>
                             /\ read_all_text(f, WorldAfter, "none", "eof", 0).outcome = "ok"
                             /\ read_all_bytes(f, WorldAfter, "none", 0).outcome = "ok"]_vars

\* read_all_text was rejected on an append handle that has pending output
C26_Witness ==
    /\ last.op = "read_all_text"
    /\ last.outcome = "not_readable"
    /\ handles[last.h].mode_ = "append"
    /\ handles[last.h].stream_.buf = <<"x">>

\* the mode of f forbids the call op
Forbids(f, op) ==
    \/ op \in ReadOps /\ ~mode_can_read(f.mode_)
    \/ op \in WriteOps /\ ~mode_can_write(f.mode_)

\* C27: a closed handle whose mode also forbids the call reports "not open",
\* never "not readable" or "not writable".
C27_OpenCheckFirst ==
    /\ (/\ last.op \in ReadOps \cup WriteOps
        /\ handles[last.h].live
        /\ ~is_open(handles[last.h])
        /\ Forbids(handles[last.h], last.op)) => last.outcome = "not_open"
    /\ \A h \in Handles :
           (handles[h].live /\ ~is_open(handles[h])) =>
               LET f == handles[h]
               IN  /\ ~mode_can_read(f.mode_) =>
                       /\ read_all_text(f, World, "none", "eof", 0).outcome = "not_open"
                       /\ read_all_bytes(f, World, "none", 0).outcome = "not_open"
                   /\ ~mode_can_write(f.mode_) =>
                       \A x \in Content :
                           /\ write(f, World, x, FALSE).outcome = "not_open"
                           /\ write_bytes(f, World, x, FALSE).outcome = "not_open"

\* a default-constructed handle (mode read) was asked to write
C27_Witness ==
    /\ last.op = "write_text"
    /\ last.outcome = "not_open"
    /\ handles[last.h] = DefaultFile

\* C29: on a read_write handle on a file holding c, without a host fault, a
\* write of x with |x| <= |c| that directly follows the open replaces the
\* first |x| bytes and keeps the rest, and a write of x that directly follows
\* a read_all_text / read_all_bytes makes the file c followed by x (the file
\* being looked at once the handle has flushed).
C29_ReadWritePosition ==
    [][\A h \in Handles :
           (/\ last'.h = h
            /\ last'.op \in WriteOps
            /\ last'.outcome = "ok"
            /\ last.h = h
            /\ last.outcome = "ok"
            /\ ~last.fault
            /\ handles[h].live
            /\ is_open(handles[h])
            /\ handles[h].mode_ = "read_write") =>
               LET p     == handles[h].path_
                   c     == files[p].data
                   x     == last'.data
                   after == flush(handles'[h], WorldAfter, FALSE).w.files[p].data
               IN  /\ (last.op = "open" /\ Len(x) <= Len(c)) =>
                          after = x \o SubSeq(c, Len(x) + 1, Len(c))
                   /\ last.op \in ReadOps => after = c \o x]_vars

\* a one-byte write is pending at the end of a one-byte file
C29_Witness ==
    /\ last.op = "write_bytes"
    /\ last.outcome = "ok"
    /\ last.data = <<"x">>
    /\ handles[last.h].mode_ = "read_write"
    /\ handles[last.h].stream_.pos = 1
    /\ handles[last.h].stream_.buf = <<"x">>
    /\ files["a"].data = <<"0">>

=============================================================================
